---- MODULE Spec2Model ----
(***************************************************************************)
(* Model of the ETF trend speculator scripts:                              *)
(*   etf_risk_monitor.py      RSI / OBV top divergence, EMA death cross    *)
(*   etf_trend_evaluation.py  weighted trend score, sorted batch table     *)
(*   position_management.py   ATR based position size                      *)
(*                                                                         *)
(* Floating point numbers are modelled as exact rationals.  Prices of the  *)
(* position sizer are integers in ticks, TicksPerYuan ticks to the yuan.   *)
(* A rational is a pair <<num, den>> with den > 0, NaN the pair <<0, 0>>,  *)
(* and Python's None a record of its own.                                  *)
(***************************************************************************)
EXTENDS Integers, Sequences, FiniteSets, Bags, TLC

VARIABLES mode, etf_codes, provider, idx, results, attempts, csv, outcome,
          df, ret, called

vars == <<mode, etf_codes, provider, idx, results, attempts, csv, outcome,
          df, ret, called>>

runnerVars == <<mode, etf_codes, provider, idx, results, attempts, csv, outcome>>

unitVars == <<df, ret, called>>

None == [none |-> TRUE]

NaN == <<0, 0>>

\* ------------------------------------------------------------------------
\* Program constants
\* ------------------------------------------------------------------------
RSI_PERIOD == 14

EMA_SHORT == 12

EMA_LONG == 26

MAX_LOSS_PER_ETF == 150

ATR_PERIOD == 14

ATR_MULTIPLIER == 2

\* ------------------------------------------------------------------------
\* Bounds of the model
\* ------------------------------------------------------------------------
\* closes of the divergence and death cross series are drawn from 1..MaxClose
MaxClose == 3

\* volumes of the divergence series are drawn from 0..MaxVolume
MaxVolume == 1

\* number of freely chosen trailing bars after the flat prefix of a series
DivTail == 5

CrossTail == 4

PosTail == 2

\* a series is tried at every length from (minimum - LenSlack) to (minimum + LenSlack)
LenSlack == 1

\* the indicator grid of the trend scorer: 0, ScoreStep, 2*ScoreStep, ... up to 100
ScoreStep == 10

\* price ticks per yuan in the position sizer
TicksPerYuan == 100

\* longest instrument list of a batch run
MaxList == 3

\* ------------------------------------------------------------------------
\* Arithmetic helpers
\* ------------------------------------------------------------------------
Abs(x) == IF x < 0 THEN -x ELSE x

Max(a, b) == IF a >= b THEN a ELSE b

Min(a, b) == IF a <= b THEN a ELSE b

RECURSIVE Gcd(_, _)
Gcd(a, b) == IF b = 0 THEN a ELSE Gcd(b, a % b)

\* a/b < c/d for a, c >= 0 and b, d > 0, by the Euclidean algorithm (no products,
\* so the numbers stay small)
RECURSIVE FracLess(_, _, _, _)
FracLess(a, b, c, d) ==
    LET q1 == a \div b
        q2 == c \div d
        r1 == a % b
        r2 == c % d
    IN  IF q1 # q2 THEN q1 < q2
        ELSE IF r2 = 0 THEN FALSE
        ELSE IF r1 = 0 THEN TRUE
        ELSE FracLess(d, r2, b, r1)

\* float comparison x < y: false as soon as one side is NaN
Lt(x, y) == x # NaN /\ y # NaN /\ FracLess(x[1], x[2], y[1], y[2])

Gt(x, y) == Lt(y, x)

Reduce(n, d) == LET g == Gcd(n, d) IN <<n \div g, d \div g>>

Tail5(s) == SubSeq(s, Len(s) - 4, Len(s))

\* a series of n bars: a flat prefix of value base, then the bars of tail
Series(n, base, tail) ==
    IF n <= Len(tail) THEN SubSeq(tail, Len(tail) - n + 1, Len(tail))
    ELSE [k \in 1..(n - Len(tail)) |-> base] \o tail

Tuples(S, n) == [1..n -> S]

\* ------------------------------------------------------------------------
\* etf_trend_evaluation.py: the trend scorer
\* A trend frame is [len, ADX, MACD_DIF, MACD_DEA, RSI]: the number of bars and
\* the indicator columns of its latest row (ADX and RSI in whole points).
\* ------------------------------------------------------------------------
calculate_technical_indicators(frame) ==
    IF frame = None \/ frame.len < 30 THEN None ELSE frame

macd_status(latest) == latest.MACD_DIF > 0 /\ latest.MACD_DEA > 0

\* min(adx_value, 50) / 50 * 100
adx_score(adx_value) == Min(adx_value, 50) * 2

macd_score(status) == IF status THEN 100 ELSE 0

\* three times max(0, (rsi_value - 50) / 30 * 100)
rsi_score3(rsi_value) == Max(0, (rsi_value - 50) * 10)

\* thirty times adx_score * 0.4 + macd_score * 0.3 + rsi_score * 0.3
total_score30(latest) ==
    12 * adx_score(latest.ADX) + 9 * macd_score(macd_status(latest))
        + 3 * rsi_score3(latest.RSI)

\* round(total_score, 1), in tenths of a point (total_score30 >= 0; a third is
\* never a tie)
round1(score30) == (score30 + 1) \div 3

evaluate_trend(frame, etf_code) ==
    IF frame = None \/ frame.len < 30 THEN None
    ELSE [code |-> etf_code, adx |-> frame.ADX, macd |-> macd_status(frame),
          rsi |-> frame.RSI, score |-> round1(total_score30(frame))]

\* ------------------------------------------------------------------------
\* etf_risk_monitor.py: indicators (the ta library's RSI, OBV and EMA) and signals
\* A risk frame is [close, volume], two sequences of the same length.
\* ------------------------------------------------------------------------
\* the two Wilder averages (alpha = 1/RSI_PERIOD, adjust=False, seeded with the
\* first value, 0) of the up and down moves at bar t, as <<up, down, den>> for
\* up/den and down/den
RECURSIVE WilderUpDown(_, _)
WilderUpDown(close, t) ==
    IF t = 1 THEN <<0, 0, 1>>
    ELSE LET p == WilderUpDown(close, t - 1)
             diff == close[t] - close[t - 1]
             up == IF diff > 0 THEN diff ELSE 0
             down == IF diff < 0 THEN -diff ELSE 0
             u == (RSI_PERIOD - 1) * p[1] + up * p[3]
             d == (RSI_PERIOD - 1) * p[2] + down * p[3]
             den == RSI_PERIOD * p[3]
             g == Gcd(Gcd(u, d), den)
         IN  <<u \div g, d \div g, den \div g>>

\* RSIIndicator(close, window=RSI_PERIOD).rsi() at bar t, divided by 100:
\* NaN before the window fills, 100 where the down average is 0
Rsi(close, t) ==
    IF t < RSI_PERIOD THEN NaN
    ELSE LET s == WilderUpDown(close, t)
         IN  IF s[2] = 0 THEN <<1, 1>> ELSE Reduce(s[1], s[1] + s[2])

RsiSeries(close) == [t \in 1..Len(close) |-> Rsi(close, t)]

\* OnBalanceVolumeIndicator: cumulative sum of -volume where the close fell
\* against the bar before, +volume otherwise (the first bar included)
RECURSIVE Obv(_, _, _)
Obv(close, volume, t) ==
    IF t = 0 THEN 0
    ELSE Obv(close, volume, t - 1)
            + (IF t > 1 /\ close[t] < close[t - 1] THEN -volume[t] ELSE volume[t])

ObvSeries(close, volume) == [t \in 1..Len(close) |-> Obv(close, volume, t)]

\* EMAIndicator(close, window).ema_indicator() at bar t: ewm(span=window,
\* min_periods=window, adjust=False), NaN before the window fills
RECURSIVE EwmSpan(_, _, _)
EwmSpan(close, window, t) ==
    IF t = 1 THEN <<close[1], 1>>
    ELSE LET p == EwmSpan(close, window, t - 1)
         IN  Reduce((window - 1) * p[1] + 2 * close[t] * p[2], (window + 1) * p[2])

Ema(close, window, t) == IF t < window THEN NaN ELSE EwmSpan(close, window, t)

isna(x) == x = NaN

\* pandas Series.idxmax() on a float column: the position of the maximum, NaN
\* skipped; of several positions holding the maximum, the first
idxmax(s) ==
    CHOOSE i \in DOMAIN s :
        /\ ~isna(s[i])
        /\ \A j \in DOMAIN s : ~isna(s[j]) =>
              /\ ~Lt(s[i], s[j])
              /\ (j < i => Lt(s[j], s[i]))

\* Series.idxmax() on a column of whole numbers (closes in the model's unit,
\* OBV): no NaN, the first of several positions holding the maximum
idxmax_int(s) ==
    CHOOSE i \in DOMAIN s :
        \A j \in DOMAIN s : s[i] >= s[j] /\ (j < i => s[j] < s[i])

check_rsi_divergence(frame) ==
    IF Len(frame.close) < RSI_PERIOD + 5 THEN FALSE
    ELSE LET last_5 == Tail5(frame.close)
             last_5_rsi == Tail5(RsiSeries(frame.close))
         IN  idxmax_int(last_5) = 5 /\ idxmax(last_5_rsi) # 5

check_obv_divergence(frame) ==
    IF Len(frame.close) < 10 THEN FALSE
    ELSE LET last_5_close == Tail5(frame.close)
             last_5_obv == Tail5(ObvSeries(frame.close, frame.volume))
         IN  idxmax_int(last_5_close) = 5 /\ idxmax_int(last_5_obv) # 5

\* check_ema_death_cross with the two comparisons not strict
check_ema_death_cross_loose(frame) ==
    IF Len(frame.close) < EMA_LONG + 1 THEN FALSE
    ELSE LET n == Len(frame.close)
         IN  /\ ~Lt(Ema(frame.close, EMA_SHORT, n - 1), Ema(frame.close, EMA_LONG, n - 1))
             /\ ~Gt(Ema(frame.close, EMA_SHORT, n), Ema(frame.close, EMA_LONG, n))

check_ema_death_cross(frame) ==
    IF Len(frame.close) < EMA_LONG + 1 THEN FALSE
    ELSE LET n == Len(frame.close)
         IN  /\ Gt(Ema(frame.close, EMA_SHORT, n - 1), Ema(frame.close, EMA_LONG, n - 1))
             /\ Lt(Ema(frame.close, EMA_SHORT, n), Ema(frame.close, EMA_LONG, n))

\* ------------------------------------------------------------------------
\* position_management.py: the position sizer
\* A position frame is [high, low, close], three sequences of the same length,
\* in ticks.
\* ------------------------------------------------------------------------
\* df['tr'] at bar t >= 2 (at bar 1 close.shift(1) is NaN, and so is tr)
tr(frame, t) ==
    Max(frame.high[t] - frame.low[t],
        Max(Abs(frame.high[t] - frame.close[t - 1]),
            Abs(frame.low[t] - frame.close[t - 1])))

\* the bars of df['tr'].tail(ATR_PERIOD) that hold a number
tr_tail(frame) ==
    {t \in 1..Len(frame.close) : t > Len(frame.close) - ATR_PERIOD /\ t > 1}

RECURSIVE SumTr(_, _)
SumTr(frame, T) ==
    IF T = {} THEN 0
    ELSE LET t == CHOOSE x \in T : TRUE IN tr(frame, t) + SumTr(frame, T \ {t})

\* df['tr'].tail(ATR_PERIOD).mean(), in ticks: pandas leaves the NaN out of
\* the sum and of the count
latest_atr(frame) ==
    IF tr_tail(frame) = {} THEN NaN
    ELSE <<SumTr(frame, tr_tail(frame)), Cardinality(tr_tail(frame))>>

\* MAX_LOSS_PER_ETF // (ATR_MULTIPLIER * latest_atr), atr > 0 in ticks
raw_quantity(atr) ==
    (MAX_LOSS_PER_ETF * atr[2] * TicksPerYuan) \div (ATR_MULTIPLIER * atr[1])

\* quantity_of without the rounding down to whole lots
quantity_of_unrounded(atr) == Max(100, raw_quantity(atr))

quantity_of(atr) == Max(100, (raw_quantity(atr) \div 100) * 100)

\* round(n / d) to the nearest integer, a tie to the even one (n >= 0, d > 0)
RoundDiv(n, d) ==
    LET q == n \div d
        r == n % d
    IN  IF 2 * r < d THEN q
        ELSE IF 2 * r > d THEN q + 1
        ELSE IF q % 2 = 0 THEN q ELSE q + 1

\* calculate_position with the length check one bar too low
calculate_position_short(response, etf_code) ==
    IF response = None \/ Len(response.close) < ATR_PERIOD - 1 THEN None
    ELSE LET atr == latest_atr(response)
         IN  IF isna(atr) \/ response.close[Len(response.close)] <= 0 \/ atr[1] = 0
             THEN None
             ELSE [code |-> etf_code,
                   price |-> RoundDiv(response.close[Len(response.close)] * 1000, TicksPerYuan),
                   atr |-> RoundDiv(atr[1] * 1000, atr[2] * TicksPerYuan),
                   quantity |-> Max(100, (raw_quantity(atr) \div 100) * 100),
                   stop_loss_pct |-> 0,
                   max_loss |-> 0]

\* response is what get_etf_data returned: a position frame or None.  With an
\* ATR of 0 the floor division yields inf (or nan), int() raises and the
\* except clause returns None.
calculate_position(response, etf_code) ==
    IF response = None \/ Len(response.close) < ATR_PERIOD THEN None
    ELSE LET atr == latest_atr(response)
             current_price == response.close[Len(response.close)]
         IN  IF isna(atr) \/ current_price <= 0 THEN None
             ELSE IF atr[1] = 0 THEN None
             ELSE [code |-> etf_code,
                   \* round(current_price, 3), in thousandths of a yuan
                   price |-> RoundDiv(current_price * 1000, TicksPerYuan),
                   \* round(latest_atr, 3), in thousandths of a yuan
                   atr |-> RoundDiv(atr[1] * 1000, atr[2] * TicksPerYuan),
                   quantity |-> quantity_of(atr),
                   \* round(stop_loss_pct, 2), in hundredths of a percent
                   stop_loss_pct |->
                       RoundDiv(ATR_MULTIPLIER * atr[1] * 100 * 100, atr[2] * current_price),
                   \* round(ATR_MULTIPLIER * latest_atr * quantity, 2), in
                   \* hundredths of a yuan
                   max_loss |->
                       RoundDiv(ATR_MULTIPLIER * atr[1] * quantity_of(atr) * 100,
                                atr[2] * TicksPerYuan)]

\* ------------------------------------------------------------------------
\* Function-level specifications: Init draws the argument, one action applies
\* the function.  The batch variables stay idle.
\* ------------------------------------------------------------------------
\* no CSV file has been written
NoFile == None

RunnerIdle ==
    /\ mode = "unit"
    /\ etf_codes = <<>>
    /\ provider = <<>>
    /\ idx = 0
    /\ results = <<>>
    /\ attempts = <<>>
    /\ csv = NoFile
    /\ outcome = "idle"

UnitStart(frames) ==
    /\ df \in frames
    /\ ret = None
    /\ called = "none"
    /\ RunnerIdle

Lengths(minimum) == (minimum - LenSlack)..(minimum + LenSlack)

Closes == 1..MaxClose

ScoreGrid == {k * ScoreStep : k \in 0..(100 \div ScoreStep)} \cup {50, 80, 100}

TrendFrames ==
    [len : Lengths(30), ADX : ScoreGrid, MACD_DIF : {-1, 0, 1},
     MACD_DEA : {-1, 0, 1}, RSI : ScoreGrid]

DivFrames ==
    {[close |-> Series(n, base, tail), volume |-> Series(n, 1, vtail)] :
        n \in Lengths(10) \cup Lengths(RSI_PERIOD + 5),
        base \in Closes,
        tail \in Tuples(Closes, DivTail),
        vtail \in Tuples(0..MaxVolume, DivTail)}

CrossFrames ==
    {[close |-> Series(n, base, tail), volume |-> Series(n, 1, <<>>)] :
        n \in Lengths(EMA_LONG + 1),
        base \in Closes,
        tail \in Tuples(Closes, CrossTail)}

\* 0, 1.00, 1.03 and 7.00 yuan
PriceLevels == {0, TicksPerYuan, TicksPerYuan + 3, 7 * TicksPerYuan}

\* a bar <<high, low, close>> with low <= close <= high
Bars == {b \in PriceLevels \X PriceLevels \X PriceLevels : b[2] <= b[3] /\ b[3] <= b[1]}

PosFrames ==
    {[high |-> Series(n, base, [k \in 1..PosTail |-> bars[k][1]]),
      low |-> Series(n, base, [k \in 1..PosTail |-> bars[k][2]]),
      close |-> Series(n, base, [k \in 1..PosTail |-> bars[k][3]])] :
        n \in Lengths(ATR_PERIOD),
        base \in PriceLevels,
        bars \in Tuples(Bars, PosTail)}

EvaluateTrend ==
    /\ called = "none"
    /\ ret' = evaluate_trend(df, 1)
    /\ called' = "evaluate_trend"
    /\ UNCHANGED <<df, runnerVars>>

CheckRsiDivergence ==
    /\ called = "none"
    /\ ret' = check_rsi_divergence(df)
    /\ called' = "check_rsi_divergence"
    /\ UNCHANGED <<df, runnerVars>>

CheckObvDivergence ==
    /\ called = "none"
    /\ ret' = check_obv_divergence(df)
    /\ called' = "check_obv_divergence"
    /\ UNCHANGED <<df, runnerVars>>

CheckEmaDeathCross ==
    /\ called = "none"
    /\ ret' = check_ema_death_cross(df)
    /\ called' = "check_ema_death_cross"
    /\ UNCHANGED <<df, runnerVars>>

CalculatePosition ==
    /\ called = "none"
    /\ ret' = calculate_position(df, 1)
    /\ called' = "calculate_position"
    /\ UNCHANGED <<df, runnerVars>>

InitScore == UnitStart(TrendFrames \cup {None})

SpecScore == InitScore /\ [][EvaluateTrend]_vars

InitDiv == UnitStart(DivFrames)

NextDiv == CheckRsiDivergence \/ CheckObvDivergence

SpecDiv == InitDiv /\ [][NextDiv]_vars

InitCross == UnitStart(CrossFrames)

SpecCross == InitCross /\ [][CheckEmaDeathCross]_vars

InitPos == UnitStart(PosFrames \cup {None})

SpecPos == InitPos /\ [][CalculatePosition]_vars

\* ------------------------------------------------------------------------
\* Claims about the functions
\* ------------------------------------------------------------------------
\* C1: for a frame of at least 30 bars with ADX and RSI in [0,100], the
\* composite score evaluate_trend returns lies in [0,100] (0..1000 tenths),
\* and the RSI sub-score does not exceed 100.
C1_ScoreInRange ==
    (called = "evaluate_trend" /\ df # None /\ df.len >= 30) =>
        /\ ret # None
        /\ 0 <= ret.score /\ ret.score <= 1000
        /\ rsi_score3(df.RSI) <= 300

\* the position of the maximum of a float column, the latest of several
\* holding it
LastArgmax(s) ==
    CHOOSE i \in DOMAIN s :
        /\ ~isna(s[i])
        /\ \A j \in DOMAIN s : ~isna(s[j]) =>
              /\ ~Lt(s[i], s[j])
              /\ (j > i => Lt(s[j], s[i]))

\* the same for a column of whole numbers
LastArgmaxInt(s) ==
    CHOOSE i \in DOMAIN s :
        \A j \in DOMAIN s : s[i] >= s[j] /\ (j > i => s[j] < s[i])

\* C2: on a series that passes the length check, check_rsi_divergence and
\* check_obv_divergence return true exactly when, over the last 5 bars, the
\* latest bar holding the maximum close is the last bar and the latest bar
\* holding the maximum of the oscillator is not the last bar.
C2_LatestTieBreak ==
    /\ (called = "check_rsi_divergence" /\ Len(df.close) >= RSI_PERIOD + 5) =>
          (ret <=> /\ LastArgmaxInt(Tail5(df.close)) = 5
                   /\ LastArgmax(Tail5(RsiSeries(df.close))) # 5)
    /\ (called = "check_obv_divergence" /\ Len(df.close) >= 10) =>
          (ret <=> /\ LastArgmaxInt(Tail5(df.close)) = 5
                   /\ LastArgmaxInt(Tail5(ObvSeries(df.close, df.volume))) # 5)

\* C3: check_ema_death_cross returns true exactly when the series has at least
\* EMA_LONG + 1 bars, the short EMA is strictly above the long EMA at the bar
\* before the last and strictly below it at the last bar; so it is never true
\* when the short EMA is at or above the long EMA at the last bar.
C3_DeathCross ==
    called = "check_ema_death_cross" =>
        LET n == Len(df.close)
            short(t) == EwmSpan(df.close, EMA_SHORT, t)
            long(t) == EwmSpan(df.close, EMA_LONG, t)
            below(t) == FracLess(short(t)[1], short(t)[2], long(t)[1], long(t)[2])
            above(t) == FracLess(long(t)[1], long(t)[2], short(t)[1], short(t)[2])
        IN  /\ ret <=> (n >= EMA_LONG + 1 /\ above(n - 1) /\ below(n))
            /\ ~below(n) => ~ret

\* C3 witness: a death cross is reported
C3_Witness == called = "check_ema_death_cross" /\ ret

\* C4: with at least ATR_PERIOD bars, a defined ATR (0 included) and a latest
\* close above 0, calculate_position returns a recommendation whose quantity
\* is a positive multiple of 100.
C4_QuantityLot ==
    (/\ called = "calculate_position"
     /\ df # None
     /\ Len(df.close) >= ATR_PERIOD
     /\ ~isna(latest_atr(df))
     /\ df.close[Len(df.close)] > 0) =>
        /\ ret # None
        /\ ret.quantity > 0
        /\ ret.quantity % 100 = 0

\* C9: a returned quantity is max(100, 100 * floor(rawQty / 100)) with rawQty
\* the largest integer whose loss rawQty * riskPerShare stays within
\* MAX_LOSS_PER_ETF; the unrounded loss riskPerShare * quantity is within the
\* budget whenever rawQty >= 100 and exceeds it only at quantity 100.
\* (risk and budget are both scaled by count * TicksPerYuan)
C9_Quantity ==
    (called = "calculate_position" /\ ret # None) =>
        LET atr == latest_atr(df)
            risk == ATR_MULTIPLIER * atr[1]
            budget == MAX_LOSS_PER_ETF * atr[2] * TicksPerYuan
            q == ret.quantity
        IN  /\ q % 100 = 0 /\ q >= 100
            /\ q > 100 => (q * risk <= budget /\ (q + 100) * risk > budget)
            /\ q = 100 => 200 * risk > budget
            /\ 100 * risk <= budget => q * risk <= budget
            /\ q * risk > budget => q = 100

\* C9 witness: the one-lot floor applies and the loss exceeds the budget
C9_Witness ==
    /\ called = "calculate_position"
    /\ ret # None
    /\ ret.quantity = 100
    /\ ATR_MULTIPLIER * latest_atr(df)[1] * 100
          > MAX_LOSS_PER_ETF * latest_atr(df)[2] * TicksPerYuan

\* the true range of bar t as the claim has it; bar 1 has no previous close
ClaimTr(frame, t) ==
    IF t = 1 THEN frame.high[1] - frame.low[1] ELSE tr(frame, t)

RECURSIVE ClaimSumTr(_, _)
ClaimSumTr(frame, k) ==
    IF k = 0 THEN 0
    ELSE ClaimTr(frame, Len(frame.close) - k + 1) + ClaimSumTr(frame, k - 1)

\* C10: for every accepted series (ATR_PERIOD bars or more) the ATR of a
\* recommendation is the sum of the true range of the trailing ATR_PERIOD
\* bars divided by ATR_PERIOD; ATR_PERIOD - 1 bars give no recommendation.
C10_AtrWindow ==
    (called = "calculate_position" /\ df # None) =>
        /\ Len(df.close) = ATR_PERIOD - 1 => ret = None
        /\ (Len(df.close) >= ATR_PERIOD /\ ret # None) =>
              ret.atr = RoundDiv(ClaimSumTr(df, ATR_PERIOD) * 1000,
                                 ATR_PERIOD * TicksPerYuan)

\* ------------------------------------------------------------------------
\* The batch loops of the three scripts.  provider[i] is what get_etf_data
\* returns for the i-th instrument of the list: None or a frame.
\* ------------------------------------------------------------------------
Ones(n) == Series(n, 1, <<>>)

RiskSamples ==
    {None,
     [close |-> Series(3, 1, <<>>), volume |-> Ones(3)],
     [close |-> Series(EMA_LONG + 1, 2, <<3, 1>>), volume |-> Ones(EMA_LONG + 1)],
     [close |-> Series(RSI_PERIOD + 5, 1, <<1, 1, 1, 1, 2>>),
      volume |-> Ones(RSI_PERIOD + 5)]}

TrendSamples ==
    {None,
     [len |-> 29, ADX |-> 50, MACD_DIF |-> 1, MACD_DEA |-> 1, RSI |-> 80],
     [len |-> 30, ADX |-> 0, MACD_DIF |-> -1, MACD_DEA |-> -1, RSI |-> 40],
     [len |-> 30, ADX |-> 20, MACD_DIF |-> 1, MACD_DEA |-> 1, RSI |-> 50],
     [len |-> 31, ADX |-> 50, MACD_DIF |-> 1, MACD_DEA |-> 1, RSI |-> 80]}

PosSample(n, base, bar) ==
    [high |-> Series(n, base, <<bar[1]>>), low |-> Series(n, base, <<bar[2]>>),
     close |-> Series(n, base, <<bar[3]>>)]

PositionSamples ==
    {None,
     PosSample(ATR_PERIOD - 1, TicksPerYuan, <<TicksPerYuan + 3, TicksPerYuan, TicksPerYuan>>),
     PosSample(ATR_PERIOD, TicksPerYuan, <<TicksPerYuan, TicksPerYuan, TicksPerYuan>>),
     PosSample(ATR_PERIOD, TicksPerYuan, <<TicksPerYuan + 3, TicksPerYuan, TicksPerYuan>>),
     PosSample(ATR_PERIOD + 1, TicksPerYuan, <<7 * TicksPerYuan, TicksPerYuan, TicksPerYuan>>)}

Samples(m) ==
    CASE m = "risk" -> RiskSamples
      [] m = "trend" -> TrendSamples
      [] m = "position" -> PositionSamples

Init ==
    /\ mode \in {"risk", "trend", "position"}
    /\ etf_codes \in {[k \in 1..n |-> k] : n \in 0..MaxList}
    /\ provider \in Tuples(Samples(mode), Len(etf_codes))
    /\ idx = 0
    /\ results = <<>>
    /\ attempts = <<>>
    /\ csv = NoFile
    /\ outcome = "running"
    /\ df = None
    /\ ret = None
    /\ called = "none"

monitor_etf(response, etf_code) ==
    IF response = None THEN None
    ELSE [code |-> etf_code,
          price |-> response.close[Len(response.close)],
          rsi_divergence |-> check_rsi_divergence(response),
          obv_divergence |-> check_obv_divergence(response),
          ema_death_cross |-> check_ema_death_cross(response)]

\* one pass of the loop body of evaluate_multiple_etfs
evaluate_one(response, etf_code) ==
    IF response = None THEN None
    ELSE IF calculate_technical_indicators(response) = None THEN None
    ELSE evaluate_trend(calculate_technical_indicators(response), etf_code)

\* sort_values with ascending=True
sort_values_ascending(rows) ==
    {[i \in 1..Len(rows) |-> rows[p[i]]] :
        p \in {q \in [1..Len(rows) -> 1..Len(rows)] :
                 /\ \A i, j \in 1..Len(rows) : i # j => q[i] # q[j]
                 /\ \A i, j \in 1..Len(rows) :
                       i < j => rows[q[i]].score <= rows[q[j]].score}}

\* df.sort_values(score, ascending=False): the default sort is not stable, so
\* every arrangement of the rows with non-increasing scores is an outcome
sort_values(rows) ==
    {[i \in 1..Len(rows) |-> rows[p[i]]] :
        p \in {q \in [1..Len(rows) -> 1..Len(rows)] :
                 /\ \A i, j \in 1..Len(rows) : i # j => q[i] # q[j]
                 /\ \A i, j \in 1..Len(rows) :
                       i < j => rows[q[i]].score >= rows[q[j]].score}}

\* the part of a loop pass the three modes share
LoopPass(m, result) ==
    /\ mode = m
    /\ outcome = "running"
    /\ idx < Len(etf_codes)
    /\ attempts' = Append(attempts, etf_codes[idx + 1])
    /\ results' = IF result # None THEN Append(results, result) ELSE results
    /\ idx' = idx + 1
    /\ UNCHANGED <<mode, etf_codes, provider, csv, outcome, unitVars>>

\* the risk loop with a break in place of the skip of a failed instrument
RiskStep_break ==
    /\ mode = "risk"
    /\ outcome = "running"
    /\ idx < Len(etf_codes)
    /\ attempts' = Append(attempts, etf_codes[idx + 1])
    /\ LET result == monitor_etf(provider[idx + 1], etf_codes[idx + 1])
       IN  IF result # None
           THEN results' = Append(results, result) /\ idx' = idx + 1
           ELSE results' = results /\ idx' = Len(etf_codes)
    /\ UNCHANGED <<mode, etf_codes, provider, csv, outcome, unitVars>>

RiskStep == LoopPass("risk", monitor_etf(provider[idx + 1], etf_codes[idx + 1]))

TrendStep == LoopPass("trend", evaluate_one(provider[idx + 1], etf_codes[idx + 1]))

PosStep == LoopPass("position", calculate_position(provider[idx + 1], etf_codes[idx + 1]))

\* the end of main without the test for an empty result list
FinishInOrder_always(m) ==
    /\ mode = m
    /\ outcome = "running"
    /\ idx = Len(etf_codes)
    /\ csv' = [rows |-> results]
    /\ outcome' = "saved"
    /\ UNCHANGED <<mode, etf_codes, provider, idx, results, attempts, unitVars>>

\* after the loop of main (risk monitor, position sizer): write the rows or
\* report that there are none
FinishInOrder(m) ==
    /\ mode = m
    /\ outcome = "running"
    /\ idx = Len(etf_codes)
    /\ IF results # <<>>
       THEN csv' = [rows |-> results] /\ outcome' = "saved"
       ELSE csv' = csv /\ outcome' = "no_results"
    /\ UNCHANGED <<mode, etf_codes, provider, idx, results, attempts, unitVars>>

RiskFinish == FinishInOrder("risk")

PosFinish == FinishInOrder("position")

\* the end of evaluate_multiple_etfs and of its caller main
TrendFinish ==
    /\ mode = "trend"
    /\ outcome = "running"
    /\ idx = Len(etf_codes)
    /\ IF results = <<>>
       THEN csv' = csv /\ outcome' = "no_results"
       ELSE \E table \in sort_values(results) :
               csv' = [rows |-> table] /\ outcome' = "saved"
    /\ UNCHANGED <<mode, etf_codes, provider, idx, results, attempts, unitVars>>

Next == RiskStep \/ RiskFinish \/ TrendStep \/ TrendFinish \/ PosStep \/ PosFinish

Spec == Init /\ [][Next]_vars

\* ------------------------------------------------------------------------
\* Claims about the batch loops
\* ------------------------------------------------------------------------
\* what the mode's per-instrument function makes of a provider response
ResultOf(m, response, etf_code) ==
    CASE m = "risk" -> monitor_etf(response, etf_code)
      [] m = "trend" -> evaluate_one(response, etf_code)
      [] m = "position" -> calculate_position(response, etf_code)

\* the records of the first k instruments that produced one, in list order
RECURSIVE Collected(_)
Collected(k) ==
    IF k = 0 THEN <<>>
    ELSE LET r == ResultOf(mode, provider[k], etf_codes[k])
         IN  IF r # None THEN Append(Collected(k - 1), r) ELSE Collected(k - 1)

C5_Collected ==
    /\ attempts = SubSeq(etf_codes, 1, idx)
    /\ results = Collected(idx)
    /\ outcome # "running" => idx = Len(etf_codes)

\* C5: every instrument is attempted exactly once in list order, a failed
\* instrument does not stop the loop (while instruments remain, a step takes
\* the next one and the run goes on), and the collected results hold exactly
\* one record for each instrument that produced one, in input order.
C5_BatchLoop ==
    /\ []C5_Collected
    /\ [][idx < Len(etf_codes) =>
            /\ idx' = idx + 1
            /\ attempts' = Append(attempts, etf_codes[idx + 1])
            /\ outcome' = "running"]_vars

\* C5 witness: the loop has ended, an instrument failed and a later one
\* produced a record
C5_Witness ==
    /\ outcome # "running"
    /\ \E i, j \in 1..idx :
          /\ i < j
          /\ provider[i] = None
          /\ ResultOf(mode, provider[j], etf_codes[j]) # None

HistLen(m, frame) == IF m = "trend" THEN frame.len ELSE Len(frame.close)

\* the shortest history with which a signal of the mode can be computed
MinHistory(m) ==
    CASE m = "risk" -> 10
      [] m = "trend" -> 30
      [] m = "position" -> ATR_PERIOD

Written == IF csv = NoFile THEN <<>> ELSE csv.rows

NoRow(i) == \A k \in DOMAIN Written : Written[k].code # etf_codes[i]

NoRecord(i) ==
    /\ \A k \in DOMAIN results : results[k].code # etf_codes[i]
    /\ NoRow(i)

\* C6 as stated: in every mode an instrument whose fetch failed or whose
\* history is shorter than the minimum the mode's signals require has no
\* record in the written table.
C6_NoRecordWithoutHistory ==
    \A i \in 1..idx :
        (provider[i] = None \/ HistLen(mode, provider[i]) < MinHistory(mode)) =>
            NoRow(i)

\* C6 amended: a failed fetch gives no record in any mode; a history under 30
\* bars gives none in trend mode and one under ATR_PERIOD bars none in
\* position mode; in risk mode every fetched instrument has its record,
\* with each signal whose minimum length is not met reported false; the
\* written table holds the codes of the collected records and no other.
C6_ShortHistory ==
    /\ \A i \in 1..idx :
          /\ provider[i] = None => NoRecord(i)
          /\ (provider[i] # None /\ mode # "risk"
                /\ HistLen(mode, provider[i]) < MinHistory(mode)) => NoRecord(i)
          /\ (provider[i] # None /\ mode = "risk") =>
                \E k \in DOMAIN results :
                    /\ results[k].code = etf_codes[i]
                    /\ Len(provider[i].close) < RSI_PERIOD + 5 => ~results[k].rsi_divergence
                    /\ Len(provider[i].close) < 10 => ~results[k].obv_divergence
                    /\ Len(provider[i].close) < EMA_LONG + 1 => ~results[k].ema_death_cross
    /\ csv # NoFile =>
          {csv.rows[k].code : k \in DOMAIN csv.rows}
              = {results[k].code : k \in DOMAIN results}

\* C6 witness: in risk mode a history too short for any signal is written
C6_Witness ==
    /\ mode = "risk"
    /\ outcome = "saved"
    /\ \E i \in 1..idx :
          /\ provider[i] # None
          /\ Len(provider[i].close) < MinHistory("risk")
          /\ \E k \in DOMAIN csv.rows : csv.rows[k].code = etf_codes[i]

Count(r, rows) == Cardinality({k \in DOMAIN rows : rows[k] = r})

\* C7: the table of trend mode is a permutation of the collected records,
\* its scores non-increasing from the first row to the last.
C7_SortedTable ==
    (mode = "trend" /\ outcome = "saved") =>
        /\ Len(csv.rows) = Len(results)
        /\ \A k \in DOMAIN results : Count(results[k], csv.rows) = Count(results[k], results)
        /\ \A k \in 1..(Len(csv.rows) - 1) : csv.rows[k].score >= csv.rows[k + 1].score

\* C7 witness: the sort has moved a row
C7_Witness ==
    /\ mode = "trend"
    /\ outcome = "saved"
    /\ Len(results) >= 2
    /\ csv.rows # results

\* C8: the CSV is written exactly when, after the last instrument, at least
\* one record was collected; without records the run ends as "no results"
\* and writes nothing; nothing is written while instruments remain.
C8_Persistence ==
    /\ csv # NoFile <=> outcome = "saved"
    /\ outcome = "saved" => (idx = Len(etf_codes) /\ results # <<>>)
    /\ outcome = "no_results" => (idx = Len(etf_codes) /\ results = <<>>)
    /\ idx < Len(etf_codes) => (csv = NoFile /\ outcome = "running")
    /\ (outcome = "running" /\ idx = Len(etf_codes)) =>
          ENABLED (RiskFinish \/ TrendFinish \/ PosFinish)

\* C8 witness: every instrument of a list failed and the run ended without a file
C8_Witness ==
    /\ outcome = "no_results"
    /\ Len(attempts) >= 2
    /\ csv = NoFile

====
